---- MODULE Spec2Model ----
(***************************************************************************)
(* Model of the IDKit script loader (loadIDKitScript) and of the two       *)
(* places that bootstrap the World ID widget on top of it:                 *)
(* WorldIDVerifyButton (src/components/worldcoin/IDKitWeb.tsx, the second  *)
(* definition in the file, lines 197-507) and HomeScreen                   *)
(* (src/app/(tabs)/index.tsx).                                             *)
(*                                                                         *)
(* The browser is modelled as a single-threaded event loop: a macrotask    *)
(* (a timer, a script load/error event, a user press, a React mount, an    *)
(* SDK callback) runs only when the microtask queue is empty, and promise  *)
(* reactions are microtasks run in registration order.                     *)
(***************************************************************************)
EXTENDS Integers, Sequences, FiniteSets, TLC

\* ---- bounds of the model ----
MaxOps == 2        \* promises created by loadIDKitScript()
MaxLate == 1       \* load/error events delivered to a script after its timer fired
MaxReactions == 3  \* reactions waiting on one pending promise
MaxButtons == 2    \* mounts of WorldIDVerifyButton over the page's lifetime
MaxHomes == 2      \* mounts of HomeScreen over the page's lifetime
MaxSdkOpens == 2   \* calls of the global SDK's open(config)

\* ---- program constants ----
maxAttempts == 3
NumSources == 3

VARIABLES
  PlatformOS,     \* Platform.OS: "web" or "native"
  idkitLoading,   \* window._idkitLoading: 0 (undefined) or a promise id
  promises,       \* the promises created at line 205, with the closure's `attempt`
  scripts,        \* the script elements created by tryLoad that are still in the
                  \* document or still have an event to come
  injected,       \* history: how often each <<promise, cycle, mirror>> was injected
  failed,         \* history: the <<promise, cycle, mirror>> that errored or timed out
  microtasks,     \* the microtask queue (promise reactions ready to run)
  late,           \* number of removed scripts whose event was left to come late
  bud,            \* the bounds this run explores (fixed by Init)
  worldEnv,       \* navigator.userAgent contains 'WorldApp', window.MiniKit, window.miniwallet
  widgetOpenFn,   \* typeof <idkit-widget>.open === 'function'
  sdkGlobal,      \* window.IDKit (or WorldID.IDKit, worldID.IDKit) with an open function
  buttons,        \* the WorldIDVerifyButton instances, one per mount
  homes,          \* the HomeScreen instances, one per mount
  widgets,        \* the 'idkit-widget' elements appended to document.body
  sdkOpens,       \* the sdk.open(config) calls made, with their callbacks' owner
  pressPaths,     \* history: the open paths that presses of the button have used
  navigated,      \* window.location.href was assigned by a success callback
  href            \* the URL assigned, with the payload the callback was given

vars == <<PlatformOS, idkitLoading, promises, scripts, injected, failed, microtasks,
          late, bud, worldEnv,
          widgetOpenFn, sdkGlobal, buttons, homes, widgets, sdkOpens, pressPaths,
          navigated, href>>

\* The mutable state the handlers work on, as one record.
Cur ==
  [idkitLoading |-> idkitLoading, promises |-> promises, scripts |-> scripts,
   injected |-> injected, failed |-> failed, microtasks |-> microtasks, buttons |-> buttons, homes |-> homes,
   widgets |-> widgets, sdkOpens |-> sdkOpens, pressPaths |-> pressPaths,
   navigated |-> navigated, href |-> href]

Commit(st) ==
  /\ idkitLoading' = st.idkitLoading
  /\ promises' = st.promises
  /\ scripts' = st.scripts
  /\ injected' = st.injected
  /\ failed' = st.failed
  /\ microtasks' = st.microtasks
  /\ buttons' = st.buttons
  /\ homes' = st.homes
  /\ widgets' = st.widgets
  /\ sdkOpens' = st.sdkOpens
  /\ pressPaths' = st.pressPaths
  /\ navigated' = st.navigated
  /\ href' = st.href

Env == <<PlatformOS, bud, worldEnv, widgetOpenFn, sdkGlobal>>

\* sourcesBase: the three mirrors, by position in the list.
sourcesBase == <<1, 2, 3>>

\* A URL: the mirror, and the "?v=<Date.now()>-<attempt>" suffix when cache-busted
\* (the clock value is left out; the attempt number is kept).
PlainUrl(u) == [base |-> u, bust |-> FALSE, v |-> 0]
BustUrl(u, attempt) == [base |-> u, bust |-> TRUE, v |-> attempt]

\* resolve() / reject() of the promise p: only the first settlement counts;
\* the waiting reactions become microtasks in registration order.
settle(st, p, outcome) ==
  IF st.promises[p].state # "pending" THEN st
  ELSE [st EXCEPT !.promises[p].state = outcome,
                  !.promises[p].reactions = <<>>,
                  !.microtasks = @ \o st.promises[p].reactions]

resolve(st, p) == settle(st, p, "resolved")
reject(st, p) == settle(st, p, "rejected")

\* p.then / p.catch / await p: wait on a pending promise, or queue at once.
\* p = 0 stands for the fresh Promise.resolve() returned on native.
subscribe(st, p, r) ==
  IF p # 0 /\ st.promises[p].state = "pending"
  THEN [st EXCEPT !.promises[p].reactions = Append(@, r)]
  ELSE [st EXCEPT !.microtasks = Append(@, r)]

RECURSIVE cycle(_, _, _), tryLoad(_, _, _, _, _, _)

\* cycle(useCacheBust) of the promise p.
cycle(st, p, useCacheBust) ==
  LET attempt == st.promises[p].attempt IN
  IF attempt >= maxAttempts THEN reject(st, p)
  ELSE LET urls == IF useCacheBust
                   THEN [i \in 1..NumSources |-> BustUrl(sourcesBase[i], attempt)]
                   ELSE [i \in 1..NumSources |-> PlainUrl(sourcesBase[i])]
       IN tryLoad([st EXCEPT !.promises[p].attempt = attempt + 1],
                  p, urls, useCacheBust, attempt + 1, "none")

\* How often the pair was injected so far.
Count(inj, key) == IF key \in DOMAIN inj THEN inj[key] ELSE 0

\* tryLoad(urls, usedBust) of the promise p. cyc and prev are history values: the
\* number of the cycle() call the chain descends from, and how the chain's previous
\* script was abandoned ("none" for the first of a cycle). n tells apart two
\* elements created for the same mirror in the same cycle.
tryLoad(st, p, urls, usedBust, cyc, prev) ==
  IF Len(urls) = 0 THEN cycle(st, p, ~usedBust)
  ELSE LET key == <<p, cyc, urls[1].base>>
           n == Count(st.injected, key) + 1
       IN [st EXCEPT
             !.scripts = @ \cup
               {[op |-> p, url |-> urls[1], rest |-> Tail(urls), usedBust |-> usedBust,
                 cyc |-> cyc, n |-> n, prev |-> prev, inDoc |-> TRUE,
                 timer |-> "armed", ev |-> "none"]},
             !.injected = (key :> n) @@ @]

\* document.querySelector('script[data-idkit-script="true"]')
already(st) == \E s \in st.scripts : s.inDoc

\* A loadIDKitScript() that starts an operation without looking at the singleton.
loadIDKitScriptNoReuse(st) ==
  IF PlatformOS # "web" THEN [st |-> st, p |-> 0]
  ELSE LET p == Len(st.promises) + 1
           st1 == [st EXCEPT !.idkitLoading = p,
                             !.promises = Append(@, [state |-> "pending", attempt |-> 0,
                                                     reactions |-> <<>>])]
           st2 == IF already(st1) THEN resolve(st1, p) ELSE cycle(st1, p, FALSE)
       IN [st |-> subscribe(st2, p, [k |-> "clear", p |-> p]), p |-> p]

\* loadIDKitScript(): the state after the call and the promise returned.
loadIDKitScript(st) ==
  IF PlatformOS # "web" THEN [st |-> st, p |-> 0]
  ELSE IF st.idkitLoading # 0 THEN [st |-> st, p |-> st.idkitLoading]
  ELSE LET p == Len(st.promises) + 1
           st1 == [st EXCEPT !.idkitLoading = p,
                             !.promises = Append(@, [state |-> "pending", attempt |-> 0,
                                                     reactions |-> <<>>])]
           st2 == IF already(st1) THEN resolve(st1, p) ELSE cycle(st1, p, FALSE)
       IN [st |-> subscribe(st2, p, [k |-> "clear", p |-> p]), p |-> p]

\* A call of loadIDKitScript() stays within the bounds of the model.
CanCall ==
  \/ PlatformOS # "web"
  \/ /\ idkitLoading # 0
     /\ promises[idkitLoading].state = "pending" =>
          Len(promises[idkitLoading].reactions) <= bud.reactions
  \/ idkitLoading = 0 /\ Len(promises) < bud.ops

\* A macrotask runs only when no microtask is left and the page has not been left.
Idle == microtasks = <<>> /\ ~navigated

\* ---- the events of one injected script ----

\* An element that is out of the document, whose timer is cleared or has fired and
\* whose load/error event has come or will never come is referenced by nothing and
\* is dropped from `scripts`.

\* The setTimeout callback of script s (lines 249-253). lingers: the fetch of the
\* removed element is still to end, so its load or error event is still to come.
onTimeout(st, s, lingers) ==
  LET gone == [s EXCEPT !.timer = "fired", !.inDoc = FALSE]
      st1 == [st EXCEPT !.scripts = (@ \ {s}) \cup (IF lingers THEN {gone} ELSE {}),
                        !.failed = @ \cup {<<s.op, s.cyc, s.url.base>>}]
  IN tryLoad(st1, s.op, s.rest, s.usedBust, s.cyc, "timeout")

\* script.onload of script s (lines 255-263).
onload(st, s) ==
  LET done == [s EXCEPT !.timer = "cleared", !.ev = "load"]
      st1 == [st EXCEPT !.scripts = (@ \ {s}) \cup (IF s.inDoc THEN {done} ELSE {})]
  IN resolve(st1, s.op)

\* An onerror that removes the script but does not go on to the next candidate.
onerrorStalls(st, s) ==
  [st EXCEPT !.scripts = @ \ {s},
             !.failed = @ \cup {<<s.op, s.cyc, s.url.base>>}]

\* script.onerror of script s (lines 264-269).
onerror(st, s) ==
  LET st1 == [st EXCEPT !.scripts = @ \ {s},
                        !.failed = @ \cup {<<s.op, s.cyc, s.url.base>>}]
  IN tryLoad(st1, s.op, s.rest, s.usedBust, s.cyc, "error")

ScriptTimeout ==
  \E s \in scripts, lingers \in BOOLEAN :
    /\ Idle
    /\ s.timer = "armed"
    /\ lingers => late < bud.late
    /\ Commit(onTimeout(Cur, s, lingers))
    /\ late' = IF lingers THEN late + 1 ELSE late
    /\ UNCHANGED Env

\* The browser fires the load or the error event of a script element once; removing
\* the element does not cancel its fetch, so the event may come after the timer fired.
ScriptOnload ==
  \E s \in scripts :
    /\ Idle
    /\ s.ev = "none"
    /\ Commit(onload(Cur, s))
    /\ UNCHANGED <<late, Env>>

ScriptOnerror ==
  \E s \in scripts :
    /\ Idle
    /\ s.ev = "none"
    /\ Commit(onerror(Cur, s))
    /\ UNCHANGED <<late, Env>>

\* The rejection handler registered at lines 279-283.
clearSingleton(st) == [st EXCEPT !.idkitLoading = 0]

RunClear ==
  /\ microtasks # <<>> /\ Head(microtasks).k = "clear"
  /\ LET r == Head(microtasks)
         st == [Cur EXCEPT !.microtasks = Tail(@)]
     IN Commit(IF st.promises[r.p].state = "rejected" THEN clearSingleton(st) ELSE st)
  /\ UNCHANGED <<late, Env>>

\* ---- helpers shared by the two bootstrap sites ----

\* How the awaited promise ended (p = 0: the resolved promise returned on native).
outcome(st, p) == IF p = 0 THEN "resolved" ELSE st.promises[p].state

LoadFailedMsg == "Failed to load IDKit script"
SdkNotFoundMsg == "IDKit SDK not found"
SdkErrorMsg == "Unknown error"
NativeMsg == "Not available on native"

\* React drops a state update of a component that is no longer mounted.
setError(st, b, msg) ==
  IF st.buttons[b].mounted THEN [st EXCEPT !.buttons[b].error = msg] ELSE st

setReady(st, b) ==
  IF st.buttons[b].mounted THEN [st EXCEPT !.buttons[b].ready = TRUE] ELSE st

setWorldError(st, h, msg) ==
  IF st.homes[h].mounted THEN [st EXCEPT !.homes[h].worldError = msg] ELSE st

\* document.createElement('idkit-widget') ... document.body.appendChild(el)
appendWidget(st, by, inst) ==
  [st EXCEPT !.widgets = Append(@, [by |-> by, inst |-> inst, shown |-> FALSE])]

\* sdk.open({... onSuccess, onError, onClose})
sdkOpen(st, by, inst) ==
  [st EXCEPT !.sdkOpens = Append(@, [by |-> by, inst |-> inst, state |-> "open"])]

\* widgetRef.current.open()
widgetOpen(st, w) == [st EXCEPT !.widgets[w].shown = TRUE]

\* ---- WorldIDVerifyButton ----

\* The effect of lines 343-387: the call and the .then/.catch registration.
buttonEffect(st, b) ==
  IF PlatformOS = "web"
  THEN LET r == loadIDKitScript(st)
       IN subscribe(r.st, r.p, [k |-> "btnEffect", p |-> r.p, inst |-> b])
  ELSE st

\* The .then callback (lines 346-381) or the .catch callback (lines 382-385).
buttonEffectSettled(st, b, p) ==
  IF outcome(st, p) = "resolved"
  THEN LET st1 == IF st.buttons[b].widgetRef = 0
                  THEN [appendWidget(st, "button", b)
                          EXCEPT !.buttons[b].widgetRef = Len(st.widgets) + 1]
                  ELSE st
       IN setReady(st1, b)
  ELSE setError(st, b, LoadFailedMsg)

\* onPress up to its await (lines 389-398).
onPress(st, b) ==
  IF PlatformOS # "web" THEN setError(st, b, NativeMsg)
  ELSE IF st.buttons[b].openingRef THEN st
  ELSE LET r == loadIDKitScript([st EXCEPT !.buttons[b].openingRef = TRUE])
       IN subscribe(r.st, r.p, [k |-> "btnPress", p |-> r.p, inst |-> b])

\* onPress after its await (lines 399-442).
onPressResumed(st, b, p) ==
  IF outcome(st, p) # "resolved"
  THEN [setError(st, b, LoadFailedMsg) EXCEPT !.buttons[b].openingRef = FALSE]
  ELSE IF st.buttons[b].widgetRef # 0 /\ widgetOpenFn
  THEN [widgetOpen(st, st.buttons[b].widgetRef)
          EXCEPT !.buttons[b].openingRef = FALSE,
                 !.pressPaths = @ \cup {"widget"}]
  ELSE IF ~sdkGlobal
  THEN [setError(st, b, SdkNotFoundMsg) EXCEPT !.buttons[b].openingRef = FALSE]
  ELSE [sdkOpen(st, "button", b) EXCEPT !.pressPaths = @ \cup {"sdk"}]

\* ---- HomeScreen ----

\* The useMemo of isWorldEnv (lines 31-36).
isWorldEnv ==
  IF PlatformOS # "web" THEN FALSE
  ELSE worldEnv.WorldAppUA \/ worldEnv.MiniKit \/ worldEnv.miniwallet

\* The banner 'worldid-scan-banner' is in the rendered view of HomeScreen h.
BannerShown(h) == homes[h].mounted /\ PlatformOS = "web" /\ ~homes[h].isWorldEnv

\* The text 'worldid-error' is in the rendered view of HomeScreen h.
ErrorShown(h) == BannerShown(h) /\ homes[h].worldError # "null"

\* initWorldID without its test of isWorldEnv.
initWorldIDUnguarded(st, h) ==
  IF PlatformOS # "web" THEN st
  ELSE LET r == loadIDKitScript(st)
       IN subscribe(r.st, r.p, [k |-> "homeInit", p |-> r.p, inst |-> h])

\* initWorldID up to its await (lines 44-50).
initWorldID(st, h) ==
  IF PlatformOS # "web" \/ ~st.homes[h].isWorldEnv THEN st
  ELSE LET r == loadIDKitScript(st)
       IN subscribe(r.st, r.p, [k |-> "homeInit", p |-> r.p, inst |-> h])

\* initWorldID going on after its await without looking at cancelled.
initWorldIDResumedUnchecked(st, h, p) ==
  IF outcome(st, p) # "resolved" THEN setWorldError(st, h, LoadFailedMsg)
  ELSE LET st1 == IF st.homes[h].widgetRef = 0
                  THEN [appendWidget(st, "home", h)
                          EXCEPT !.homes[h].widgetRef = Len(st.widgets) + 1]
                  ELSE st
       IN IF widgetOpenFn THEN widgetOpen(st1, st1.homes[h].widgetRef)
          ELSE IF sdkGlobal THEN sdkOpen(st1, "home", h)
          ELSE st1

\* initWorldID after its await (lines 51-124).
initWorldIDResumed(st, h, p) ==
  IF outcome(st, p) # "resolved" THEN setWorldError(st, h, LoadFailedMsg)
  ELSE IF st.homes[h].cancelled THEN st
  ELSE LET st1 == IF st.homes[h].widgetRef = 0
                  THEN [appendWidget(st, "home", h)
                          EXCEPT !.homes[h].widgetRef = Len(st.widgets) + 1]
                  ELSE st
       IN IF widgetOpenFn THEN widgetOpen(st1, st1.homes[h].widgetRef)
          ELSE IF sdkGlobal THEN sdkOpen(st1, "home", h)
          ELSE st1

\* ---- the actions of the components ----

\* Continuations that may still call sdk.open(config).
Openers(rs) == Len(SelectSeq(rs, LAMBDA r : r.k \in {"btnPress", "homeInit"}))

RECURSIVE SumOpeners(_)
SumOpeners(n) ==
  IF n = 0 THEN 0 ELSE Openers(promises[n].reactions) + SumOpeners(n - 1)

CanOpen == Len(sdkOpens) + Openers(microtasks) + SumOpeners(Len(promises)) < bud.sdkOpens

NoButtonMounted == \A b \in 1..Len(buttons) : ~buttons[b].mounted
NoHomeMounted == \A h \in 1..Len(homes) : ~homes[h].mounted

\* React mounts a WorldIDVerifyButton and runs its effect. The state of an unmounted
\* instance is discarded; its refs live on in the continuations that captured them.
MountButton ==
  /\ Idle /\ CanCall
  /\ NoButtonMounted /\ Len(buttons) < bud.buttons
  /\ LET b == Len(buttons) + 1
         st == [Cur EXCEPT !.buttons = Append(@,
                  [mounted |-> TRUE, ready |-> PlatformOS # "web", error |-> "null",
                   openingRef |-> FALSE, widgetRef |-> 0])]
     IN Commit(buttonEffect(st, b))
  /\ UNCHANGED <<late, Env>>

\* A change of action, appId or callbackUrl re-runs the effect.
ButtonPropsChange ==
  \E b \in 1..Len(buttons) :
    /\ Idle /\ CanCall
    /\ buttons[b].mounted /\ PlatformOS = "web"
    /\ Commit(buttonEffect(Cur, b))
    /\ UNCHANGED <<late, Env>>

UnmountButton ==
  \E b \in 1..Len(buttons) :
    /\ Idle
    /\ buttons[b].mounted
    /\ buttons' = [buttons EXCEPT ![b].mounted = FALSE, ![b].ready = FALSE,
                                  ![b].error = "null"]
    /\ UNCHANGED <<idkitLoading, promises, scripts, injected, failed, microtasks, homes, widgets,
                   sdkOpens, pressPaths, navigated, href, late, Env>>

\* The user presses the enabled button (disabled = !ready).
Press ==
  \E b \in 1..Len(buttons) :
    /\ Idle
    /\ buttons[b].mounted /\ buttons[b].ready
    /\ (PlatformOS = "web" /\ ~buttons[b].openingRef) => CanCall /\ CanOpen
    /\ Commit(onPress(Cur, b))
    /\ UNCHANGED <<late, Env>>

RunButtonEffect ==
  /\ microtasks # <<>> /\ Head(microtasks).k = "btnEffect"
  /\ LET r == Head(microtasks)
     IN Commit(buttonEffectSettled([Cur EXCEPT !.microtasks = Tail(@)], r.inst, r.p))
  /\ UNCHANGED <<late, Env>>

RunButtonPress ==
  /\ microtasks # <<>> /\ Head(microtasks).k = "btnPress"
  /\ LET r == Head(microtasks)
     IN Commit(onPressResumed([Cur EXCEPT !.microtasks = Tail(@)], r.inst, r.p))
  /\ UNCHANGED <<late, Env>>

\* React mounts HomeScreen: isWorldEnv is memoised, then the effect runs.
MountHome ==
  /\ Idle /\ CanCall /\ CanOpen
  /\ NoHomeMounted /\ Len(homes) < bud.homes
  /\ LET h == Len(homes) + 1
         st == [Cur EXCEPT !.homes = Append(@,
                  [mounted |-> TRUE, isWorldEnv |-> isWorldEnv,
                   worldError |-> "null", widgetRef |-> 0, cancelled |-> FALSE])]
     IN Commit(initWorldID(st, h))
  /\ UNCHANGED <<late, Env>>

\* React unmounts HomeScreen: the effect's cleanup sets cancelled (lines 127-129).
UnmountHome ==
  \E h \in 1..Len(homes) :
    /\ Idle
    /\ homes[h].mounted
    /\ homes' = [homes EXCEPT ![h].mounted = FALSE, ![h].worldError = "null",
                              ![h].cancelled = (PlatformOS = "web")]
    /\ UNCHANGED <<idkitLoading, promises, scripts, injected, failed, microtasks, buttons, widgets,
                   sdkOpens, pressPaths, navigated, href, late, Env>>

RunHomeInit ==
  /\ microtasks # <<>> /\ Head(microtasks).k = "homeInit"
  /\ LET r == Head(microtasks)
     IN Commit(initWorldIDResumed([Cur EXCEPT !.microtasks = Tail(@)], r.inst, r.p))
  /\ UNCHANGED <<late, Env>>

\* ---- the callbacks the SDK and the widget element call ----

\* Strings that get encoded are sequences of characters.
Digits == {"0", "1", "2", "3", "4", "5", "6", "7", "8", "9"}
Letters ==
  {"a", "b", "c", "d", "e", "f", "g", "h", "i", "j", "k", "l", "m",
   "n", "o", "p", "q", "r", "s", "t", "u", "v", "w", "x", "y", "z",
   "A", "B", "C", "D", "E", "F", "G", "H", "I", "J", "K", "L", "M",
   "N", "O", "P", "Q", "R", "S", "T", "U", "V", "W", "X", "Y", "Z"}

\* The code unit of the characters outside Letters and Digits that occur.
CharCode(c) ==
  CASE c = " " -> 32 [] c = "!" -> 33 [] c = "\"" -> 34 [] c = "%" -> 37
    [] c = "'" -> 39 [] c = "(" -> 40 [] c = ")" -> 41 [] c = "*" -> 42
    [] c = "+" -> 43 [] c = "," -> 44 [] c = "-" -> 45 [] c = "." -> 46
    [] c = ":" -> 58 [] c = "\\" -> 92 [] c = "_" -> 95 [] c = "{" -> 123
    [] c = "}" -> 125 [] c = "~" -> 126

HexDigit(n) ==
  <<"0", "1", "2", "3", "4", "5", "6", "7", "8", "9", "A", "B", "C", "D", "E", "F">>[n + 1]

\* %XX of a character.
PercentEncode(c) == <<"%", HexDigit(CharCode(c) \div 16), HexDigit(CharCode(c) % 16)>>

RECURSIVE Flatten(_)
Flatten(ss) == IF ss = <<>> THEN <<>> ELSE Head(ss) \o Flatten(Tail(ss))

\* JSON.stringify of a string, and of an object whose values are strings.
JSONString(str) ==
  <<"\"">>
  \o Flatten([i \in 1..Len(str) |->
                IF str[i] \in {"\"", "\\"} THEN <<"\\", str[i]>> ELSE <<str[i]>>])
  \o <<"\"">>

RECURSIVE JSONMembers(_)
JSONMembers(obj) ==
  IF obj = <<>> THEN <<>>
  ELSE JSONString(Head(obj).key) \o <<":">> \o JSONString(Head(obj).value)
       \o (IF Len(obj) > 1 THEN <<",">> ELSE <<>>) \o JSONMembers(Tail(obj))

JSONstringify(obj) == <<"{">> \o JSONMembers(obj) \o <<"}">>

\* encodeURIComponent keeps A-Z a-z 0-9 - _ . ! ~ * ' ( ) and escapes the rest.
encodeURIComponent(str) ==
  Flatten([i \in 1..Len(str) |->
             IF str[i] \in Letters \cup Digits \cup {"-", "_", ".", "!", "~", "*", "'", "(", ")"}
             THEN <<str[i]>> ELSE PercentEncode(str[i])])

\* The serialisation of a value of url.searchParams in url.toString()
\* (application/x-www-form-urlencoded): keeps A-Z a-z 0-9 * - . _, writes a space
\* as +, escapes the rest.
searchParamsValue(str) ==
  Flatten([i \in 1..Len(str) |->
             IF str[i] \in Letters \cup Digits \cup {"*", "-", ".", "_"} THEN <<str[i]>>
             ELSE IF str[i] = " " THEN <<"+">>
             ELSE PercentEncode(str[i])])

\* The callbackUrl prop of the button; the callbackUrl HomeScreen computes.
callbackUrl == "https://example.com/callback"
homeCallbackUrl(localhost) ==
  IF localhost THEN "http://localhost:3000/callback"
  ELSE "https://444-two.vercel.app/callback"

\* The verification results the SDK may hand to the success callback.
Payloads ==
  {<<[key |-> <<"n", "o", "n", "c", "e">>, value |-> <<"a", "b", "c">>]>>,
   <<[key |-> <<"o", "k">>, value |-> <<"a", " ", "b">>],
     [key |-> <<"n">>, value |-> <<"1", "~", "2">>]>>}

NoHref == [base |-> "", result |-> <<>>, payload |-> <<>>]

\* onSuccess / el.onSuccess: url.searchParams.set('result', encodeURIComponent(
\* JSON.stringify(result))); window.location.href = url.toString(). resultParam is
\* the value of 'result' in the URL, for each payload.
resultParam ==
  [result \in Payloads |-> searchParamsValue(encodeURIComponent(JSONstringify(result)))]

redirect(st, base, result) ==
  [st EXCEPT !.navigated = TRUE,
             !.href = [base |-> base, result |-> resultParam[result], payload |-> result]]

\* The callbackUrl of the site that registered the callback.
ownerCallbackUrl(by, localhost) ==
  IF by = "button" THEN callbackUrl ELSE homeCallbackUrl(localhost)

\* onError / el.onError of the site that registered it.
ownerError(st, by, inst) ==
  IF by = "button" THEN setError(st, inst, SdkErrorMsg)
  ELSE setWorldError(st, inst, SdkErrorMsg)

\* An onClose that only logs, for either owner.
ownerCloseLogsOnly(st, by, inst) == st

\* onClose: the button's resets the opening guard, HomeScreen's only logs.
ownerClose(st, by, inst) ==
  IF by = "button" THEN [st EXCEPT !.buttons[inst].openingRef = FALSE] ELSE st

SdkOnSuccess ==
  \E s \in 1..Len(sdkOpens), result \in Payloads, localhost \in BOOLEAN :
    /\ Idle /\ sdkOpens[s].state = "open"
    /\ Commit(redirect(Cur, ownerCallbackUrl(sdkOpens[s].by, localhost), result))
    /\ UNCHANGED <<late, Env>>

SdkOnError ==
  \E s \in 1..Len(sdkOpens) :
    /\ Idle /\ sdkOpens[s].state = "open"
    /\ Commit(ownerError(Cur, sdkOpens[s].by, sdkOpens[s].inst))
    /\ UNCHANGED <<late, Env>>

SdkOnClose ==
  \E s \in 1..Len(sdkOpens) :
    /\ Idle /\ sdkOpens[s].state = "open"
    /\ Commit(ownerClose([Cur EXCEPT !.sdkOpens[s].state = "closed"],
                         sdkOpens[s].by, sdkOpens[s].inst))
    /\ UNCHANGED <<late, Env>>

WidgetOnSuccess ==
  \E w \in 1..Len(widgets), result \in Payloads, localhost \in BOOLEAN :
    /\ Idle /\ widgets[w].shown
    /\ Commit(redirect(Cur, ownerCallbackUrl(widgets[w].by, localhost), result))
    /\ UNCHANGED <<late, Env>>

WidgetOnError ==
  \E w \in 1..Len(widgets) :
    /\ Idle /\ widgets[w].shown
    /\ Commit(ownerError(Cur, widgets[w].by, widgets[w].inst))
    /\ UNCHANGED <<late, Env>>

\* ---- the environment ----

\* The custom element gets defined (its instances are upgraded and gain open()).
DefineWidgetElement ==
  /\ Idle /\ ~widgetOpenFn
  /\ widgetOpenFn' = TRUE
  /\ UNCHANGED <<PlatformOS, bud, worldEnv, sdkGlobal, idkitLoading, promises, scripts,
                 injected, failed, microtasks, late, buttons, homes, widgets, sdkOpens, pressPaths,
                 navigated, href>>

\* The SDK global appears.
DefineSdkGlobal ==
  /\ Idle /\ ~sdkGlobal
  /\ sdkGlobal' = TRUE
  /\ UNCHANGED <<PlatformOS, bud, worldEnv, widgetOpenFn, idkitLoading, promises, scripts,
                 injected, failed, microtasks, late, buttons, homes, widgets, sdkOpens, pressPaths,
                 navigated, href>>

\* The pages HomeScreen is loaded in: an ordinary browser, and one for each of the
\* three signs of World App that isWorldEnv tests.
OrdinaryBrowser == [WorldAppUA |-> FALSE, MiniKit |-> FALSE, miniwallet |-> FALSE]

Environments ==
  {OrdinaryBrowser,
   [OrdinaryBrowser EXCEPT !.WorldAppUA = TRUE],
   [OrdinaryBrowser EXCEPT !.MiniKit = TRUE],
   [OrdinaryBrowser EXCEPT !.miniwallet = TRUE]}

\* The runs explored, each deep in one direction: the loader with late events under
\* the button's effect alone; the loader without late events under both components;
\* the components (re-mounts, several SDK sessions) over one load operation.
LoaderProfile ==
  [ops |-> MaxOps, late |-> MaxLate, reactions |-> MaxReactions,
   buttons |-> 1, homes |-> 0, sdkOpens |-> 0]

ComponentsProfile ==
  [ops |-> 1, late |-> 0, reactions |-> MaxReactions,
   buttons |-> MaxButtons, homes |-> MaxHomes, sdkOpens |-> MaxSdkOpens]

Profiles ==
  {LoaderProfile,
   [ops |-> MaxOps, late |-> 0, reactions |-> MaxReactions,
    buttons |-> 1, homes |-> 1, sdkOpens |-> 1],
   ComponentsProfile}

Init ==
  /\ PlatformOS \in {"web", "native"}
  /\ bud \in Profiles
  /\ worldEnv \in Environments
  /\ bud.homes = 0 => worldEnv = OrdinaryBrowser
  /\ widgetOpenFn \in BOOLEAN
  /\ sdkGlobal \in BOOLEAN
  /\ idkitLoading = 0
  /\ promises = <<>>
  /\ scripts = {}
  /\ injected = <<>>
  /\ failed = {}
  /\ microtasks = <<>>
  /\ late = 0
  /\ buttons = <<>>
  /\ homes = <<>>
  /\ widgets = <<>>
  /\ sdkOpens = <<>>
  /\ pressPaths = {}
  /\ navigated = FALSE
  /\ href = NoHref

Next ==
  \/ ScriptTimeout
  \/ ScriptOnload
  \/ ScriptOnerror
  \/ RunClear
  \/ MountButton
  \/ ButtonPropsChange
  \/ UnmountButton
  \/ Press
  \/ RunButtonEffect
  \/ RunButtonPress
  \/ MountHome
  \/ UnmountHome
  \/ RunHomeInit
  \/ SdkOnSuccess
  \/ SdkOnError
  \/ SdkOnClose
  \/ WidgetOnSuccess
  \/ WidgetOnError
  \/ DefineWidgetElement
  \/ DefineSdkGlobal

Spec == Init /\ [][Next]_vars

\* The event loop runs every queued microtask, and every injected script gets its
\* load event, its error event or its 15-second timer, whatever else is going on.
ScriptEvent == ScriptTimeout \/ ScriptOnload \/ ScriptOnerror
RunMicrotask == RunClear \/ RunButtonEffect \/ RunButtonPress \/ RunHomeInit

\* The loader under the calls of the button's effect, on web.
LoaderInit ==
  /\ Init
  /\ PlatformOS = "web" /\ bud = LoaderProfile
  /\ worldEnv = OrdinaryBrowser /\ ~widgetOpenFn /\ ~sdkGlobal

LoaderNext ==
  \/ ScriptTimeout
  \/ ScriptOnload
  \/ ScriptOnerror
  \/ RunClear
  \/ MountButton
  \/ ButtonPropsChange
  \/ UnmountButton
  \/ RunButtonEffect

FairSpec ==
  /\ LoaderInit /\ [][LoaderNext]_vars
  /\ SF_vars(ScriptEvent) /\ WF_vars(RunMicrotask)

\* The same runs with nothing assumed about what is scheduled.
LoaderSpec == LoaderInit /\ [][LoaderNext]_vars

\* The callbacks the SDK and the widget element may call, and the page defining them.
SdkEvent ==
  \/ SdkOnSuccess
  \/ SdkOnError
  \/ SdkOnClose
  \/ WidgetOnSuccess
  \/ WidgetOnError
  \/ DefineWidgetElement
  \/ DefineSdkGlobal

\* A page that only has WorldIDVerifyButton instances, in any browser.
ButtonInit ==
  /\ Init
  /\ bud = ComponentsProfile /\ worldEnv = OrdinaryBrowser

ButtonNext ==
  \/ ScriptEvent
  \/ RunClear
  \/ MountButton
  \/ ButtonPropsChange
  \/ UnmountButton
  \/ Press
  \/ RunButtonEffect
  \/ RunButtonPress
  \/ SdkEvent

ButtonSpec == ButtonInit /\ [][ButtonNext]_vars

\* A page that only has HomeScreen instances, in each environment.
HomeScreenInit ==
  /\ Init
  /\ bud = ComponentsProfile

HomeScreenNext ==
  \/ ScriptEvent
  \/ RunClear
  \/ MountHome
  \/ UnmountHome
  \/ RunHomeInit
  \/ SdkEvent

HomeScreenSpec == HomeScreenInit /\ [][HomeScreenNext]_vars

\* ---- the claims ----

Pending == {p \in 1..Len(promises) : promises[p].state = "pending"}
Armed == {s \in scripts : s.timer = "armed"}
InDocument == {s \in scripts : s.inDoc}

\* C1: calls made while a load is pending all get the one pending promise (so they
\* settle together), and on their behalf no (cycle, candidate) pair is injected
\* more than once.
C1_OneSequenceForAllCallers ==
  /\ \A p \in Pending : idkitLoading = p
  /\ \A key \in DOMAIN injected : injected[key] <= 1

\* C2: at most one load operation is in flight: at most one promise is pending and
\* at most one injected script is awaiting its outcome, whatever the order of the
\* timeout, load and error events (late ones included).
C2_AtMostOneInFlight ==
  /\ Cardinality(Pending) <= 1
  /\ Cardinality(Armed) <= 1

\* C3: when the first candidate of a cycle timed out and the second candidate has
\* fired its load event, the promise is resolved, the first candidate's element is
\* out of the document and the second candidate's element is in it.
C3_SecondCandidateWins ==
  \A key \in failed :
    key[3] = sourcesBase[1] =>
      \A s \in scripts :
        (s.op = key[1] /\ s.cyc = key[2] /\ s.url.base = sourcesBase[2]
           /\ s.prev = "timeout" /\ s.ev = "load") =>
          /\ promises[s.op].state = "resolved"
          /\ s.inDoc
          /\ ~\E t \in scripts : t.op = s.op /\ t.cyc = s.cyc /\ t.inDoc
                                   /\ t.url.base = sourcesBase[1]

\* C4: a rejected promise no longer is the singleton once its handlers ran, and an
\* operation started after a rejection starts with the attempt counter at 0 and
\* injects candidate 1 first, with its unmodified URL.
C4_FreshStartAfterRejection ==
  /\ \A p \in 1..Len(promises) :
       (promises[p].state = "rejected" /\ microtasks = <<>>) => idkitLoading # p
  /\ \A p \in 2..Len(promises) :
       /\ <<p, 1, sourcesBase[1]>> \in DOMAIN injected
       /\ \A s \in scripts : (s.op = p /\ s.cyc = 1) => ~s.url.bust

\* C5: once a promise has resolved the singleton stays as it is and no script is
\* injected any more.
C5_NoInjectionAfterSuccess ==
  [][(\E p \in 1..Len(promises) : promises[p].state = "resolved")
       => (idkitLoading' = idkitLoading /\ injected' = injected)]_vars

\* C6: a candidate is in play only after the candidate before it in the list failed
\* or timed out and was removed, so at most one marker-tagged script injected by
\* the loader is in the document.
C6_OneCandidateAtATime ==
  /\ \A s \in scripts : \A i \in 1..(NumSources - 1) :
       s.url.base = sourcesBase[i + 1] =>
         /\ <<s.op, s.cyc, sourcesBase[i]>> \in failed
         /\ ~\E t \in scripts : t.op = s.op /\ t.cyc = s.cyc /\ t.inDoc
                                  /\ t.url.base = sourcesBase[i]
  /\ Cardinality(InDocument) <= 1

\* C7: a promise is rejected only when every candidate of every cycle (3 x 3) has
\* failed or timed out, and a candidate whose load event fired in time has resolved
\* its promise.
C7_RejectOnlyWhenExhausted ==
  /\ \A p \in 1..Len(promises) :
       promises[p].state = "rejected" =>
         \A c \in 1..maxAttempts, i \in 1..NumSources :
           <<p, c, sourcesBase[i]>> \in failed
  /\ \A s \in scripts : s.ev = "load" => promises[s.op].state = "resolved"

\* C8: every load operation eventually settles, and its attempt chain eventually
\* stops injecting scripts, when every injected script eventually gets an event.
C8_EventuallySettles ==
  \A p \in 1..MaxOps :
    /\ (p \in Pending) ~> (p <= Len(promises) /\ promises[p].state # "pending")
    /\ (p \in Pending) ~> [](~\E s \in Armed : s.op = p)

\* C8 (witness): a load operation that went through all nine candidates, was
\* rejected and has no script left awaiting an outcome.
C8_SettledAfterFailures ==
  \E p \in 1..Len(promises) :
    /\ promises[p].state = "rejected"
    /\ \A c \in 1..maxAttempts, i \in 1..NumSources : <<p, c, sourcesBase[i]>> \in failed
    /\ ~\E s \in Armed : s.op = p

\* C9: at most one 'idkit-widget' element is ever appended to the document.
C9_AtMostOneWidget == Len(widgets) <= 1

\* C10: the presses of the button use one open path for the whole session.
C10_OneOpenPath == Cardinality(pressPaths) <= 1

\* A press of button b is swallowed when onPress returns at the opening guard.
Swallowed(b) == onPress(Cur, b) = Cur

\* The continuation of a press of button b is about to call the widget's open().
OpensWidget(b) ==
  /\ microtasks # <<>>
  /\ Head(microtasks).k = "btnPress" /\ Head(microtasks).inst = b
  /\ outcome(Cur, Head(microtasks).p) = "resolved"
  /\ buttons[b].widgetRef # 0 /\ widgetOpenFn

\* C11: once the SDK's close callback of a button's session has fired, and once the
\* widget's open() called by a press has returned, that button's openingRef is
\* false and its next press passes the guard and starts the open sequence again.
C11_DismissResetsGuard ==
  [][/\ \A s \in 1..Len(sdkOpens) :
          (/\ sdkOpens[s].by = "button"
           /\ sdkOpens[s].state = "open" /\ sdkOpens'[s].state = "closed")
          => (~buttons'[sdkOpens[s].inst].openingRef /\ ~Swallowed(sdkOpens[s].inst)')
     /\ \A b \in 1..Len(buttons) :
          OpensWidget(b) => (~buttons'[b].openingRef /\ ~Swallowed(b)')]_vars

\* C11 (witness): a button whose SDK session was closed has opened the SDK again.
C11_ReopenedAfterClose ==
  \E s, t \in 1..Len(sdkOpens) :
    /\ s < t
    /\ sdkOpens[s].by = "button" /\ sdkOpens[s].state = "closed"
    /\ sdkOpens[t].by = "button" /\ sdkOpens[t].inst = sdkOpens[s].inst

\* C12: after the error callback of the SDK (or of the widget) has fired for a
\* button, whether or not a close callback follows, a press of that button is not
\* swallowed by the opening guard and starts a new open attempt.
C12_RetryAfterError ==
  [][\A b \in 1..Len(buttons) :
       (buttons[b].error # SdkErrorMsg /\ buttons'[b].error = SdkErrorMsg)
       => (~buttons'[b].openingRef /\ ~Swallowed(b)')]_vars

\* The continuation at the head of the microtask queue handles the rejection of the
\* loader for the mounted button b (the effect's .catch or the catch of onPress).
HandlesRejection(b) ==
  /\ microtasks # <<>>
  /\ Head(microtasks).k \in {"btnEffect", "btnPress"} /\ Head(microtasks).inst = b
  /\ outcome(Cur, Head(microtasks).p) = "rejected"
  /\ buttons[b].mounted

\* A press of button b starts a new load operation.
PressStartsFreshLoad(b) == Len(onPress(Cur, b).promises) = Len(promises) + 1

\* C13: when the loader rejects, the button shows the error and, in the state after
\* the rejection is handled, its trigger is enabled and a press (one the opening
\* guard lets through) starts a fresh loadIDKitScript() operation.
C13_RetryAfterRejection ==
  [][\A b \in 1..Len(buttons) :
       HandlesRejection(b)
       => /\ buttons'[b].error = LoadFailedMsg
          /\ buttons'[b].ready
          /\ ~buttons'[b].openingRef => PressStartsFreshLoad(b)']_vars

\* The continuation at the head of the microtask queue belongs to site k ("btnPress"
\* or "homeInit") of the mounted instance i, the script has loaded, and neither the
\* widget's open() nor the global SDK is there.
FindsNothingToOpen(k, i) ==
  /\ microtasks # <<>>
  /\ Head(microtasks).k = k /\ Head(microtasks).inst = i
  /\ outcome(Cur, Head(microtasks).p) = "resolved"
  /\ ~widgetOpenFn /\ ~sdkGlobal

\* C14: when the script has loaded and neither a widget with open() nor a global SDK
\* is available, onPress and HomeScreen's auto-open each record an error string and
\* leave the state recoverable (the button's opening guard released).
C14_SdkUnavailableSurfaced ==
  [][/\ \A b \in 1..Len(buttons) :
          (FindsNothingToOpen("btnPress", b) /\ buttons[b].mounted)
          => (buttons'[b].error = SdkNotFoundMsg /\ ~buttons'[b].openingRef)
     /\ \A h \in 1..Len(homes) :
          (FindsNothingToOpen("homeInit", h) /\ homes[h].mounted /\ ~homes[h].cancelled)
          => homes'[h].worldError # "null"]_vars

\* HomeScreen h has called loadIDKitScript() or gone on to open(): its continuation
\* is waiting or queued, or it has left a widget, an SDK session or an error.
RECURSIVE Waiting(_, _)
Waiting(n, h) ==
  IF n = 0 THEN FALSE
  ELSE \/ \E i \in 1..Len(promises[n].reactions) :
            promises[n].reactions[i].k = "homeInit" /\ promises[n].reactions[i].inst = h
       \/ Waiting(n - 1, h)

AutoOpenStarted(h) ==
  \/ Waiting(Len(promises), h)
  \/ \E i \in 1..Len(microtasks) : microtasks[i].k = "homeInit" /\ microtasks[i].inst = h
  \/ \E w \in 1..Len(widgets) : widgets[w].by = "home" /\ widgets[w].inst = h
  \/ \E s \in 1..Len(sdkOpens) : sdkOpens[s].by = "home" /\ sdkOpens[s].inst = h
  \/ homes[h].worldError # "null"

WorldAppSigns == worldEnv.WorldAppUA \/ worldEnv.MiniKit \/ worldEnv.miniwallet

\* C15: on web, a HomeScreen in a page with a sign of World App (user agent, MiniKit
\* or miniwallet) starts the auto-open flow and does not render the banner; one in
\* an ordinary browser renders the banner and never calls loadIDKitScript() or
\* open(); no HomeScreen ever has both the banner and a started auto-open flow.
C15_ExclusivePaths ==
  \A h \in 1..Len(homes) :
    /\ ~(BannerShown(h) /\ AutoOpenStarted(h))
    /\ PlatformOS = "web" /\ WorldAppSigns /\ homes[h].mounted
       => AutoOpenStarted(h) /\ ~BannerShown(h)
    /\ PlatformOS = "web" /\ ~WorldAppSigns
       => ~AutoOpenStarted(h) /\ (homes[h].mounted => BannerShown(h))

\* C15 (witness): a HomeScreen in a page whose only sign of World App is the
\* MiniKit global has opened the widget or the SDK and shows no banner.
C15_AutoOpenedByMiniKit ==
  \E h \in 1..Len(homes) :
    /\ worldEnv.MiniKit /\ ~worldEnv.WorldAppUA
    /\ homes[h].mounted /\ ~BannerShown(h)
    /\ \/ \E w \in 1..Len(widgets) : widgets[w].by = "home" /\ widgets[w].inst = h /\ widgets[w].shown
       \/ \E s \in 1..Len(sdkOpens) : sdkOpens[s].by = "home" /\ sdkOpens[s].inst = h

\* C16: the URL a success callback navigates to is the callback base URL with a
\* 'result' parameter whose serialised value is the JSON of the payload URL-encoded
\* exactly once; for {"nonce":"abc"} and https://example.com/callback it is
\* https://example.com/callback?result=%7B%22nonce%22%3A%22abc%22%7D.
C16_ResultEncodedOnce ==
  navigated =>
    /\ href.result = encodeURIComponent(JSONstringify(href.payload))
    /\ (/\ href.base = "https://example.com/callback"
        /\ href.payload = <<[key |-> <<"n", "o", "n", "c", "e">>, value |-> <<"a", "b", "c">>]>>)
       => href.result = <<"%", "7", "B", "%", "2", "2", "n", "o", "n", "c", "e", "%", "2", "2",
                          "%", "3", "A", "%", "2", "2", "a", "b", "c", "%", "2", "2",
                          "%", "7", "D">>

\* C17: only the first cycle of a load operation injects unmodified URLs; every
\* further cycle injects the cache-busting version of every URL.
C17_LaterCyclesCacheBusted ==
  \A s \in scripts : s.url.bust <=> s.cyc > 1

\* The number of script elements created so far for the keys ks.
RECURSIVE Total(_)
Total(ks) ==
  IF ks = {} THEN 0
  ELSE LET k == CHOOSE x \in ks : TRUE IN injected[k] + Total(ks \ {k})

\* C18: attempt never exceeds 3, and whatever the order of the timeout, load and
\* error events a load operation runs at most 3 cycles and injects at most 9
\* scripts, each (cycle, candidate) pair at most once.
C18_BoundedInjections ==
  \A p \in 1..Len(promises) :
    LET keys == {k \in DOMAIN injected : k[1] = p} IN
    /\ promises[p].attempt <= maxAttempts
    /\ \A k \in keys : k[2] <= maxAttempts /\ injected[k] <= 1
    /\ Total(keys) <= maxAttempts * NumSources

\* C19: the marker attribute is a sound signal of a loaded SDK: whenever no load
\* operation is pending, every marker-tagged script in the document is one whose
\* load event fired (so a promise resolved on finding a marked script was resolved
\* on a loaded one).
C19_MarkerMeansLoaded ==
  Pending = {} => \A s \in InDocument : s.ev = "load"

\* C20: whenever worldError of a mounted HomeScreen is not null, the error text
\* element is in its rendered view.
C20_WorldErrorRendered ==
  \A h \in 1..Len(homes) :
    (homes[h].mounted /\ homes[h].worldError # "null") => ErrorShown(h)

\* The presses of a button in bs that are past the opening guard: suspended at the
\* await of onPress, or with their sdk.open(config) session not yet closed.
RECURSIVE PressesWaiting(_, _)
PressesWaiting(n, bs) ==
  IF n = 0 THEN 0
  ELSE Len(SelectSeq(promises[n].reactions, LAMBDA r : r.k = "btnPress" /\ r.inst \in bs))
       + PressesWaiting(n - 1, bs)

PressesOutstanding(bs) ==
  PressesWaiting(Len(promises), bs)
  + Len(SelectSeq(microtasks, LAMBDA r : r.k = "btnPress" /\ r.inst \in bs))
  + Len(SelectSeq(sdkOpens, LAMBDA o : o.by = "button" /\ o.inst \in bs /\ o.state = "open"))

\* C21: from the press that sets openingRef until its release every further press
\* returns at the guard, so at any time at most one press is past the guard and at
\* most one sdk.open(config) call of the button is outstanding.
C21_OneOpenOutstanding == PressesOutstanding(1..Len(buttons)) <= 1

\* C22: whenever window._idkitLoading is deleted, it is deleted by the rejection
\* handler of the operation it holds at that moment, and that operation is rejected:
\* the handler of an older operation never clears a newer one.
C22_ClearsOnlyItsOwnOperation ==
  [][(idkitLoading # 0 /\ idkitLoading' = 0)
       => /\ microtasks # <<>>
          /\ Head(microtasks).k = "clear"
          /\ Head(microtasks).p = idkitLoading
          /\ promises[idkitLoading].state = "rejected"]_vars

\* C22 (witness): the singleton was cleared after a rejection and holds the next
\* operation, started by a later call.
C22_NextOperationAfterClear ==
  /\ Len(promises) >= 2
  /\ promises[1].state = "rejected"
  /\ idkitLoading = 2

\* C23: when the loader resolves after the auto-open effect of a HomeScreen was
\* cleaned up, the resumed initWorldID creates no widget element and calls neither
\* widget.open() nor sdk.open(); it changes nothing.
C23_CancelledEffectDoesNothing ==
  [][\A h \in 1..Len(homes) :
       (/\ microtasks # <<>>
        /\ Head(microtasks).k = "homeInit" /\ Head(microtasks).inst = h
        /\ outcome(Cur, Head(microtasks).p) = "resolved"
        /\ homes[h].cancelled)
       => (widgets' = widgets /\ sdkOpens' = sdkOpens /\ homes' = homes)]_vars

\* C23 (witness): a HomeScreen in a World App page was unmounted while it awaited
\* the loader, the loader resolved, its continuation ran and left nothing behind.
C23_ResumedAfterCleanup ==
  \E h \in 1..Len(homes) :
    /\ homes[h].isWorldEnv /\ homes[h].cancelled
    /\ ~AutoOpenStarted(h)
    /\ promises # <<>>
    /\ \A p \in 1..Len(promises) : promises[p].state = "resolved"

====
